---- MODULE Spec2Model ----
(***************************************************************************)
(* A model of scrape2md's crawl-and-extract pipeline                       *)
(* (src/src/scrape2md/scraper.py, class WebScraper).                       *)
(*                                                                         *)
(* Strings of the program (URLs, hrefs, titles, file names, markdown       *)
(* lines) are sequences of atoms. An atom is a piece of text that no       *)
(* pattern of the program cuts in two: "/", "?", "#", "help", ".aspx",...  *)
(* A substring test of the program is a subsequence test on atoms, and     *)
(* len() is the sum of the atoms' lengths. The empty sequence stands for   *)
(* both '' and None, which the program never tells apart (`if title`).     *)
(*                                                                         *)
(* The browser, the HTML parser and the markdown emitter are outside the   *)
(* program: what they return for a page is an input, drawn from the        *)
(* finite sets Docs, FrameLists and AnchorLists.                           *)
(***************************************************************************)
EXTENDS Integers, Sequences, FiniteSets, TLC

(***************************************************************************)
(* Program constants (scraper.py lines 20-40)                              *)
(***************************************************************************)
MIN_PAGE_TEXT_LENGTH == 200
MIN_IMPORTANT_PAGE_TEXT_LENGTH == 50
MIN_TITLE_LENGTH == 3
MIN_GALLERY_HEADING_LENGTH == 5
MIN_CONTENT_HEADING_LENGTH == 3
MIN_IFRAME_TEXT_LENGTH == 200
MAX_CONTENT_HEADING_LENGTH == 100
MAX_FILENAME_LENGTH == 100
MAX_QUERY_FILENAME_LENGTH == 50
\* LOW_PRIORITY_THRESHOLD = 0.8, kept exact as the fraction 4/5
LOW_PRIORITY_THRESHOLD_NUM == 4
LOW_PRIORITY_THRESHOLD_DEN == 5
MARKDOWN_HEADER_SPLIT == 2
MARKDOWN_HEADER_LINES == 2

(***************************************************************************)
(* Bounds of the model                                                     *)
(***************************************************************************)
\* max_pages ranges over 0..MaxPagesCap
MaxPagesCap == 5
(***************************************************************************)
(* Text helpers                                                            *)
(***************************************************************************)
RECURSIVE CharLen(_)
\* len(s) of a string given as atoms
CharLen(s) == IF s = << >> THEN 0 ELSE Len(Head(s)) + CharLen(Tail(s))

\* s[i:] == pat[...] at position i
MatchAt(s, pat, i) ==
    /\ i + Len(pat) - 1 <= Len(s)
    /\ \A k \in 1..Len(pat) : s[i + k - 1] = pat[k]

\* `pat in s`
Contains(s, pat) == \E i \in 1..(Len(s) + 1) : MatchAt(s, pat, i)

\* s.startswith(pat)
StartsWith(s, pat) == MatchAt(s, pat, 1)

\* str.lower() on one atom: only the atoms with an upper-case letter change
LowerAtom(a) ==
    CASE a = "Help" -> "help"
      [] a = "HELP" -> "help"
      [] a = "About" -> "about"
      [] a = "Welcome" -> "welcome"
      [] a = "Troop" -> "troop"
      [] a = "T.org" -> "t.org"
      [] a = "News" -> "news"
      [] a = "Photo" -> "photo"
      [] a = "Home" -> "home"
      [] a = "Menu" -> "menu"
      [] a = "Events" -> "events"
      [] a = "Menu_Item_ID=" -> "menu_item_id="
      [] a = "ID=" -> "id="
      [] a = "FormLoginHelp" -> "formloginhelp"
      [] a = "FAQ" -> "faq"
      [] a = ".ASPX" -> ".aspx"
      [] a = "Guide" -> "guide"
      [] a = "LinkTo(" -> "linkto("
      [] OTHER -> a

\* str.lower()
Lower(s) == [i \in 1..Len(s) |-> LowerAtom(s[i])]

\* the sequence s without the elements for which keep is false
RECURSIVE SelectAtoms(_, _)
SelectAtoms(s, drop) ==
    IF s = << >> THEN << >>
    ELSE IF Head(s) \in drop THEN SelectAtoms(Tail(s), drop)
    ELSE <<Head(s)>> \o SelectAtoms(Tail(s), drop)

\* index of the first element of s that is in set, or Len(s) + 1
FirstIn(s, set) ==
    IF \E i \in 1..Len(s) : s[i] \in set
    THEN CHOOSE i \in 1..Len(s) : s[i] \in set /\ \A j \in 1..(i - 1) : s[j] \notin set
    ELSE Len(s) + 1

RECURSIVE RStrip(_, _)
\* s.rstrip(chars)
RStrip(s, set) ==
    IF s # << >> /\ s[Len(s)] \in set THEN RStrip(SubSeq(s, 1, Len(s) - 1), set) ELSE s

RECURSIVE LStrip(_, _)
\* s.lstrip(chars)
LStrip(s, set) ==
    IF s # << >> /\ Head(s) \in set THEN LStrip(Tail(s), set) ELSE s

\* s.strip(chars)
StripAtoms(s, set) == LStrip(RStrip(s, set), set)

\* the elements of a sequence
Range(s) == {s[i] : i \in 1..Len(s)}

\* sequences over S of length at most n
SeqUpTo(S, n) == UNION {[1..k -> S] : k \in 0..n}

(***************************************************************************)
(* urllib.parse, on atoms. A URL is scheme atom ("https://" carries the    *)
(* "//" of the authority, "javascript:" has none), host atom, then path,   *)
(* "?" query, "#" fragment. No URL of the model has ;params.               *)
(***************************************************************************)
SchemeAtoms == {"https://", "javascript:"}

\* the part of s before, after, and from the first atom of s that is in set
BeforeFirst(s, set) == SubSeq(s, 1, FirstIn(s, set) - 1)

AfterFirst(s, set) == SubSeq(s, FirstIn(s, set) + 1, Len(s))

FromFirst(s, set) == SubSeq(s, FirstIn(s, set), Len(s))

\* urlsplit, once the fragment is cut off
SplitQuery(scheme, netloc, rest, fragment) ==
    [scheme   |-> scheme,
     netloc   |-> netloc,
     path     |-> BeforeFirst(rest, {"?"}),
     query    |-> AfterFirst(rest, {"?"}),
     fragment |-> fragment]

\* urlsplit, once the scheme and the authority are cut off
SplitFragment(scheme, netloc, rest) ==
    SplitQuery(scheme, netloc, BeforeFirst(rest, {"#"}), AfterFirst(rest, {"#"}))

\* urlparse(url): [scheme, netloc, path, query, fragment]
urlparse(url) ==
    IF url # << >> /\ Head(url) = "https://"
    THEN SplitFragment(<<"https://">>, BeforeFirst(Tail(url), {"/", "?", "#"}),
                       FromFirst(Tail(url), {"/", "?", "#"}))
    ELSE IF url # << >> /\ Head(url) \in SchemeAtoms
    THEN SplitFragment(<<Head(url)>>, << >>, Tail(url))
    ELSE SplitFragment(<< >>, << >>, url)

\* urlunparse((scheme, netloc, path, params, query, fragment)), params = ''
urlunparse(p) ==
    p.scheme \o p.netloc
      \o (IF p.netloc # << >> /\ p.path # << >> /\ Head(p.path) # "/"
          THEN <<"/">> ELSE << >>)
      \o p.path
      \o (IF p.query # << >> THEN <<"?">> \o p.query ELSE << >>)
      \o (IF p.fragment # << >> THEN <<"#">> \o p.fragment ELSE << >>)

\* NormalizeParsed with the fragment passed on to urlunparse
NormalizeParsed_keeping_fragment(parsed) ==
    urlunparse([parsed EXCEPT !.path = IF parsed.path # <<"/">>
                                       THEN RStrip(parsed.path, {"/"}) ELSE <<"/">>])

\* normalize_url, from the parsed URL on
NormalizeParsed(parsed) ==
    urlunparse([scheme   |-> parsed.scheme,
                netloc   |-> parsed.netloc,
                path     |-> IF parsed.path # <<"/">>
                             THEN RStrip(parsed.path, {"/"}) ELSE <<"/">>,
                query    |-> parsed.query,
                fragment |-> << >>])

\* WebScraper.normalize_url
normalize_url(url) == NormalizeParsed(urlparse(url))

\* the directory of a path: up to and including its last "/"
RECURSIVE PathDir(_)
PathDir(path) ==
    IF path = << >> THEN <<"/">>
    ELSE IF path[Len(path)] = "/" THEN path
    ELSE PathDir(SubSeq(path, 1, Len(path) - 1))

\* urljoin, from the parsed base b and the parsed reference u on
JoinParsed(url, b, u) ==
    IF u.scheme # << >> THEN url
    ELSE urlunparse([scheme   |-> b.scheme,
                     netloc   |-> b.netloc,
                     path     |-> IF u.path = << >> THEN b.path
                                  ELSE IF Head(u.path) = "/" THEN u.path
                                  ELSE PathDir(b.path) \o u.path,
                     query    |-> IF u.path = << >> /\ u.query = << >>
                                  THEN b.query ELSE u.query,
                     fragment |-> u.fragment])

\* urllib.parse.urljoin(base, url), for URLs without dot segments
urljoin(base, url) ==
    IF url = << >> THEN base ELSE JoinParsed(url, urlparse(base), urlparse(url))

QuoteAtoms == {"'", "\""}

\* js[i..j] is "LinkTo(", a quote, one or more atoms that are no quote, a quote
LinkToMatch(js, i, j) ==
    /\ js[i] = "LinkTo("
    /\ i + 1 <= Len(js) /\ js[i + 1] \in QuoteAtoms
    /\ j >= i + 3 /\ j <= Len(js) /\ js[j] \in QuoteAtoms
    /\ \A k \in (i + 2)..(j - 1) : js[k] \notin QuoteAtoms

\* the least element of a nonempty set of numbers
Least(S) == CHOOSE x \in S : \A y \in S : x <= y

\* group(1) of the match that starts at i
LinkToGroup(js, i) ==
    SubSeq(js, i + 2, Least({j \in 1..Len(js) : LinkToMatch(js, i, j)}) - 1)

\* group(1) of the leftmost match, starts being where a match starts
LinkToFirst(js, starts) == IF starts = {} THEN << >> ELSE LinkToGroup(js, Least(starts))

\* re.search(r"LinkTo\(['\"]([^'\"]+)['\"]", js_link): group(1), or << >>
LinkToTarget(js) ==
    LinkToFirst(js, {i \in 1..Len(js) : \E j \in 1..Len(js) : LinkToMatch(js, i, j)})

\* urljoin(context_url, relative_url) when there is a match
JoinTarget(context_url, relative_url) ==
    IF relative_url # << >> THEN urljoin(context_url, relative_url) ELSE << >>

\* WebScraper.extract_url_from_javascript: the URL, or << >> for None
extract_url_from_javascript(js_link, context_url) ==
    IF ~StartsWith(js_link, <<"javascript:">>) THEN << >>
    ELSE JoinTarget(context_url, LinkToTarget(js_link))

\* is_low_priority_url matching '/help.aspx' against url.lower()
is_low_priority_url_lowercasing(url) ==
    \/ Contains(Lower(url), <<"/", "help", ".aspx">>)
    \/ Contains(url, <<"help", ".aspx", "?", "ID=">>)

\* WebScraper.is_low_priority_url
is_low_priority_url(url) ==
    \E pattern \in {<<"/", "help", ".aspx">>, <<"/", "Help", ".aspx">>,
                    <<"help", ".aspx", "?", "ID=">>} : Contains(url, pattern)

\* is_same_domain without the comparison with self.base_domain
is_same_domain_ignoring_host(url, base) == TRUE

\* WebScraper.is_same_domain, with self.base_domain = urlparse(base_url).netloc
is_same_domain(url, base) == urlparse(url).netloc \in {urlparse(base).netloc, << >>}

(***************************************************************************)
(* What the HTML parser reports of a document (BeautifulSoup on the html): *)
(*   textlen        len(soup.get_text(strip=True))                         *)
(*   server_error   'Server Error' in html                                 *)
(*   has_404        '404' in html                                          *)
(*   not_found      'The resource cannot be found' in html                 *)
(*   loading_error  a Google loading indicator is in the text              *)
(*   google_ui      a Google Slides UI phrase is in the text               *)
(*   nav            the (href, title) of the anchors in navigation         *)
(*                  containers, in the order the selector loops meet them  *)
(*   headings       the (tag, text) of h1..h4, in document order           *)
(*   title_tag      the <title> string                                     *)
(*   md             the lines the markdown emitter gives for the document  *)
(*                  once html_to_markdown has removed the boilerplate      *)
(*                  elements                                               *)
(***************************************************************************)

\* is_junk_page without the branch for the important pages
is_junk_page_without_exemption(url, doc) ==
    IF \/ Contains(url, <<"FormLoginHelp", ".aspx">>)
       \/ Contains(url, <<"FormDetail", ".aspx", "?", "Form_ID=", "5184">>)
    THEN TRUE
    ELSE IF doc.server_error /\ doc.has_404 THEN TRUE
    ELSE IF doc.not_found THEN TRUE
    ELSE IF doc.loading_error /\ doc.google_ui THEN TRUE
    ELSE doc.textlen < MIN_PAGE_TEXT_LENGTH

\* WebScraper.is_junk_page
is_junk_page(url, doc) ==
    IF \/ Contains(url, <<"FormLoginHelp", ".aspx">>)
       \/ Contains(url, <<"FormDetail", ".aspx", "?", "Form_ID=", "5184">>)
    THEN TRUE
    ELSE IF doc.server_error /\ doc.has_404 THEN TRUE
    ELSE IF doc.not_found THEN TRUE
    ELSE IF doc.loading_error /\ doc.google_ui THEN TRUE
    ELSE IF \E pattern \in {<<"/", "faq">>, <<"/", "resources", "/">>, <<"/", "about">>,
                            <<"/", "guide">>, <<"/", "help">>} :
                Contains(Lower(url), pattern)
    THEN doc.textlen < MIN_IMPORTANT_PAGE_TEXT_LENGTH
    ELSE doc.textlen < MIN_PAGE_TEXT_LENGTH

\* s.split(sep) for a one-atom separator
RECURSIVE SplitOn(_, _)
SplitOn(s, sep) ==
    LET at == FirstIn(s, {sep})
    IN  IF at > Len(s) THEN <<s>>
        ELSE <<SubSeq(s, 1, at - 1)>> \o SplitOn(SubSeq(s, at + 1, Len(s)), sep)

\* the value of the first field among hits, or << >> when there is none
FirstFieldValue(fields, hits) ==
    IF hits = {} THEN << >> ELSE Tail(fields[Least(hits)])

\* the value of the first field named Menu_Item_ID that has a value
MenuItemIdOf(fields) ==
    FirstFieldValue(fields, {i \in 1..Len(fields) :
                               Len(fields[i]) > 1 /\ fields[i][1] = "Menu_Item_ID="})

\* parse_qs(query)['Menu_Item_ID'][0], or << >> when the key is absent
\* (parse_qs drops the fields with a blank value)
MenuItemId(query) == MenuItemIdOf(SplitOn(query, "&"))

\* a dict with no key
EmptyMap == [k \in {} |-> << >>]

\* d[k] = v
Put(d, k, v) == [x \in (DOMAIN d) \cup {k} |-> IF x = k THEN v ELSE d[x]]

NavStopTitles ==
    {<<"menu">>, <<"log", " ", "on">>, <<"login">>, <<"sign", " ", "in">>,
     <<"sign", " ", "up">>, <<"register">>}

\* build_url_title_map_from_nav, "Store mapping using URL pattern"
StoreMapping(map, title, query, menu_id) ==
    IF query = << >> THEN map
    ELSE IF menu_id # << >> THEN Put(map, <<"Menu_Item_ID=">> \o menu_id, title)
    ELSE Put(map, query, title)

\* build_url_title_map_from_nav, from full_url on
MapFullUrl(map, title, query) == StoreMapping(map, title, query, MenuItemId(query))

\* js_url if js_url else urljoin(base_url, href)
JsOrJoined(js_url, base, href) == IF js_url # << >> THEN js_url ELSE urljoin(base, href)

\* build_url_title_map_from_nav, the body of the loop for one anchor
MapAnchor(map, href, title, base) ==
    IF title = << >> \/ CharLen(title) < MIN_TITLE_LENGTH THEN map
    ELSE IF Lower(title) \in NavStopTitles THEN map
    ELSE MapFullUrl(map, title,
                    urlparse(JsOrJoined(extract_url_from_javascript(href, base),
                                        base, href)).query)

\* build_url_title_map_from_nav, the loop over the anchors nav[i..]
RECURSIVE BuildFrom(_, _, _, _)
BuildFrom(map, nav, i, base) ==
    IF i > Len(nav) THEN map
    ELSE BuildFrom(MapAnchor(map, nav[i].href, nav[i].title, base), nav, i + 1, base)

\* WebScraper.build_url_title_map_from_nav
build_url_title_map_from_nav(map, doc, base) == BuildFrom(map, doc.nav, 1, base)

HeadingSkipPatterns ==
    {<<"menu">>, <<"log", " ", "on">>, <<"format", " ", "this", " ", "site">>,
     <<"slide", " ", "show", " ", "settings">>, <<"useful", " ", "links">>,
     <<"sign", " ", "up">>, <<"upcoming", " ", "events">>, <<"recent", " ", "events">>,
     <<"welcome", " ", "to">>, <<"copyright">>}

\* the heading that comes first among hit, a set of <<tag rank, index>>
FirstHit(headings, hit) ==
    IF hit = {} THEN << >>
    ELSE headings[(CHOOSE x \in hit : \A y \in hit :
                       x[1] < y[1] \/ (x[1] = y[1] /\ x[2] <= y[2]))[2]].text

\* the text of the first heading that satisfies Ok, the tags taken in the order
\* given and the headings of one tag in document order; << >> when there is none
FirstHeading(headings, tags, Ok(_)) ==
    FirstHit(headings, {x \in (1..Len(tags)) \X (1..Len(headings)) :
                          headings[x[2]].tag = tags[x[1]] /\ Ok(headings[x[2]].text)})

\* re.sub(r'\s*[-|]\s*.*$', '', title)
CutTitleSuffix(t) == RStrip(BeforeFirst(t, {"-", "|"}), {" "})

\* title_tag.string.strip() then the re.sub
TitleTagText(title_tag) == CutTitleSuffix(StripAtoms(title_tag, {" "}))

\* extract_page_title, the test on a gallery heading
GalleryHeadingOk(text) ==
    /\ text # << >>
    /\ CharLen(text) > MIN_GALLERY_HEADING_LENGTH
    /\ Contains(text, <<"(">>) /\ Contains(text, <<")">>)

\* extract_page_title, the test on a content heading
ContentHeadingOk(text) ==
    /\ text # << >>
    /\ CharLen(text) > MIN_CONTENT_HEADING_LENGTH
    /\ CharLen(text) < MAX_CONTENT_HEADING_LENGTH
    /\ ~\E skip \in HeadingSkipPatterns : Contains(Lower(text), skip)

\* extract_page_title, the lookup in self.url_title_map
MappedTitle(query, menu_id, map) ==
    IF query = << >> THEN << >>
    ELSE IF menu_id # << >> /\ (<<"Menu_Item_ID=">> \o menu_id) \in DOMAIN map
    THEN map[<<"Menu_Item_ID=">> \o menu_id]
    ELSE IF query \in DOMAIN map THEN map[query]
    ELSE << >>

\* extract_page_title, "For galleries, try to get specific event name"
GalleryTitle(title, gallery) ==
    IF /\ \/ Contains(title, <<"Gallery">>)
          \/ Contains(title, <<"Photo">>)
          \/ Contains(title, <<"Video">>)
       /\ gallery # << >>
    THEN title \o <<" ", "-", " ">> \o gallery
    ELSE title

\* extract_page_title, "Last resort: title tag"
TitleFromTag(title_tag, from_tag) ==
    IF title_tag # << >> /\ from_tag # << >> /\ CharLen(from_tag) > MIN_TITLE_LENGTH
    THEN from_tag ELSE << >>

\* extract_page_title, the fallbacks after the map
TitleFromContent(doc, heading) ==
    IF heading # << >> THEN heading
    ELSE TitleFromTag(doc.title_tag, TitleTagText(doc.title_tag))

\* extract_page_title, from the mapped title on
TitleFrom(doc, title) ==
    IF title # << >>
    THEN GalleryTitle(title, FirstHeading(doc.headings, <<"h3", "h4">>, GalleryHeadingOk))
    ELSE TitleFromContent(doc, FirstHeading(doc.headings, <<"h1", "h2", "h3">>,
                                            ContentHeadingOk))

\* WebScraper.extract_page_title: the title, or << >> for None
extract_page_title(doc, url, map) ==
    TitleFrom(doc, MappedTitle(urlparse(url).query, MenuItemId(urlparse(url).query), map))

\* atoms that are characters outside [\w\s\-.]
PunctAtoms == {",", "!", "(", ")", ":", "/", "?", "'", "\"", "|", "&", "#", "="}

\* re.sub(r'\s+', ' ', s): every run of blanks becomes one blank
RECURSIVE CollapseBlanks(_)
CollapseBlanks(s) ==
    IF Len(s) < 2 THEN s
    ELSE IF s[1] = " " /\ s[2] = " " THEN CollapseBlanks(Tail(s))
    ELSE <<Head(s)>> \o CollapseBlanks(Tail(s))

\* s[:n], cut between atoms: the longest prefix of at most n characters
RECURSIVE Truncate(_, _)
Truncate(s, n) ==
    IF s = << >> \/ Len(Head(s)) > n THEN << >>
    ELSE <<Head(s)>> \o Truncate(Tail(s), n - Len(Head(s)))

\* WebScraper.sanitize_filename
sanitize_filename(title) ==
    Truncate(StripAtoms(CollapseBlanks(SelectAtoms(title, PunctAtoms)), {" "}),
             MAX_FILENAME_LENGTH)

\* re.sub(r'[^\w\-.]', '_', s) on one atom
SafeAtom(a) ==
    CASE a \in PunctAtoms \cup {" "} -> "_"
      [] a = "ID=" -> "ID_"
      [] a = "Menu_Item_ID=" -> "Menu_Item_ID_"
      [] a = "Form_ID=" -> "Form_ID_"
      [] a = "LinkTo(" -> "LinkTo_"
      [] a = "alert(" -> "alert_"
      [] OTHER -> a

\* get_safe_filename, the name from the stripped path
SafePath(path) ==
    IF path = << >> THEN <<"index">> ELSE [i \in 1..Len(path) |-> SafeAtom(path[i])]

\* get_safe_filename, from the parsed URL on
SafeName(parsed) ==
    IF parsed.query # << >>
    THEN SafePath(StripAtoms(parsed.path, {"/"})) \o <<"_">>
           \o Truncate([i \in 1..Len(parsed.query) |-> SafeAtom(parsed.query[i])],
                       MAX_QUERY_FILENAME_LENGTH)
    ELSE SafePath(StripAtoms(parsed.path, {"/"}))

\* WebScraper.get_safe_filename
get_safe_filename(url) == SafeName(urlparse(url))

(***************************************************************************)
(* Markdown. A text is the sequence of its lines (text.split('\n')), so it *)
(* always has at least one line; a line is a sequence of atoms.            *)
(***************************************************************************)
BoilerplateTextPatterns ==
    {<<"log", " ", "on">>, <<"user", " ", "id">>, <<"password">>,
     <<"keep", " ", "me", " ", "logged">>, <<"forgot", " ", "user", " ", "id">>,
     <<"forgot", " ", "password">>, <<"cancel">>,
     <<"format", " ", "this", " ", "site">>, <<"laptop", " ", "/", " ", "desktop">>,
     <<"smart", " ", "phone", " ", "/", " ", "mobile">>, <<"user", " ", "guide">>,
     <<"mobile", " ", "app", " ", "tutorials">>, <<"newsletter">>,
     <<"about", " ", "this", " ", "site">>, <<"copyright">>,
     <<"web", " ", "host", " ", "services">>,
     <<"the", " ", "url", " ", "for", " ", "this", " ", "page">>,
     <<"open", " ", "reports", " ", "as", " ", "pdf">>,
     <<"bookmark", " ", "this", " ", "site">>}

\* the post-processing loop of html_to_markdown: the line is left out
DropLine(line) ==
    LET line_lower == StripAtoms(Lower(line), {" "})
    IN  \/ \E pattern \in BoilerplateTextPatterns : Contains(line_lower, pattern)
        \/ StartsWith(StripAtoms(line, {" "}), <<"---">>) /\ Contains(line, <<"|">>)
        \/ /\ Contains(line_lower, <<"javascript:">>)
           /\ \E word \in {<<"menu">>, <<"toggle">>, <<"linkto(">>} :
                  Contains(line_lower, word)

\* one replacement of '\n\n\n' by '\n\n': the empty line i goes
DropLineAt(lines, i) == SubSeq(lines, 1, i - 1) \o SubSeq(lines, i + 1, Len(lines))

\* while '\n\n\n' in markdown: markdown = markdown.replace('\n\n\n', '\n\n');
\* at is where two empty lines follow each other inside the text
RECURSIVE CollapseAt(_, _)
CollapseAt(lines, at) ==
    IF at = {} THEN lines
    ELSE CollapseAt(DropLineAt(lines, Least(at)),
                    {i \in 2..(Len(lines) - 3) :
                       DropLineAt(lines, Least(at))[i] = << >>
                         /\ DropLineAt(lines, Least(at))[i + 1] = << >>})

CollapseBlankLines(lines) ==
    CollapseAt(lines, {i \in 2..(Len(lines) - 2) : lines[i] = << >> /\ lines[i + 1] = << >>})

RECURSIVE LStripText(_)
\* text.lstrip()
LStripText(lines) ==
    IF Len(lines) > 1 /\ StripAtoms(lines[1], {" "}) = << >> THEN LStripText(Tail(lines))
    ELSE <<LStrip(lines[1], {" "})>> \o Tail(lines)

RECURSIVE RStripText(_)
\* text.rstrip()
RStripText(lines) ==
    IF Len(lines) > 1 /\ StripAtoms(lines[Len(lines)], {" "}) = << >>
    THEN RStripText(SubSeq(lines, 1, Len(lines) - 1))
    ELSE SubSeq(lines, 1, Len(lines) - 1) \o <<RStrip(lines[Len(lines)], {" "})>>

\* text.strip()
StripText(lines) == LStripText(RStripText(lines))

\* the line "# Source: <url>"
SourceHeader(url) == <<"# Source: ">> \o url

\* '\n'.join(cleaned_lines)
JoinLines(cleaned_lines) == IF cleaned_lines = << >> THEN << << >> >> ELSE cleaned_lines

\* WebScraper.html_to_markdown, from the emitter's lines on
html_to_markdown(doc, page_url) ==
    <<SourceHeader(page_url), << >>>>
      \o StripText(CollapseBlankLines(
             JoinLines(SelectSeq(doc.md, LAMBDA line : ~DropLine(line)))))

\* WebScraper.detect_google_embeds over page.frames (the urls of the frames,
\* the root frame first)
detect_google_embeds(frame_urls) ==
    SelectSeq(frame_urls, LAMBDA u : \/ Contains(u, <<"docs.google.com">>)
                                     \/ Contains(u, <<"drive.google.com">>))

\* the label of one bullet of embed_notes
EmbedLabel(embed_url) ==
    IF Contains(embed_url, <<"presentation">>) THEN "View Google Slides Presentation"
    ELSE IF Contains(embed_url, <<"spreadsheets">>) THEN "View Google Sheets Document"
    ELSE IF Contains(embed_url, <<"document">>) THEN "View Google Docs Document"
    ELSE "View Google Document"

\* one bullet of embed_notes
EmbedNote(embed_url) == <<"- [", EmbedLabel(embed_url), "](">> \o embed_url \o <<")">>

\* embed_notes
EmbedNotes(google_embeds) == [i \in 1..Len(google_embeds) |-> EmbedNote(google_embeds[i])]

\* scrape_page, the markdown of a junk page with embeds
PlaceholderMarkdown(url, google_embeds) ==
    <<SourceHeader(url), << >>,
      <<"**Note:** This page contains embedded Google documents that cannot be automatically scraped.">>,
      << >>,
      <<"**Embedded Documents:**">>>> \o EmbedNotes(google_embeds)

\* scrape_page, the embed notice spliced into the markdown of a content page
SpliceEmbedNotice(markdown, google_embeds) ==
    IF Len(markdown) >= MARKDOWN_HEADER_SPLIT
    THEN <<markdown[1], << >>,
           <<"**Note:** This page contains embedded Google documents:">>>>
           \o EmbedNotes(google_embeds) \o << << >> >> \o Tail(markdown)
    ELSE markdown

\* scrape_page, content_for_hash
ContentForHash(markdown) ==
    IF markdown[1] # << >> /\ StartsWith(markdown[1], <<"# Source: ">>)
    THEN IF Len(markdown) > MARKDOWN_HEADER_LINES
         THEN SubSeq(markdown, MARKDOWN_HEADER_LINES + 1, Len(markdown))
         ELSE << << >> >>
    ELSE markdown

\* scrape_page, md5 of content_for_hash.strip(); md5 is taken to be free of
\* collisions, so the digest is identified with the text it is computed from
ContentHash(markdown) == StripText(ContentForHash(markdown))

(***************************************************************************)
(* Link and frame extraction                                               *)
(***************************************************************************)
\* a document in which the parser finds nothing
BlankDoc ==
    [textlen |-> 0, server_error |-> FALSE, has_404 |-> FALSE, not_found |-> FALSE,
     loading_error |-> FALSE, google_ui |-> FALSE, nav |-> << >>, headings |-> << >>,
     title_tag |-> << >>, md |-> << << >> >>]

\* the parser's view of two html texts joined by '\n'
JoinDocs(a, b) ==
    [textlen       |-> a.textlen + b.textlen,
     server_error  |-> a.server_error \/ b.server_error,
     has_404       |-> a.has_404 \/ b.has_404,
     not_found     |-> a.not_found \/ b.not_found,
     loading_error |-> a.loading_error \/ b.loading_error,
     google_ui     |-> a.google_ui \/ b.google_ui,
     nav           |-> a.nav \o b.nav,
     headings      |-> a.headings \o b.headings,
     title_tag     |-> IF a.title_tag # << >> THEN a.title_tag ELSE b.title_tag,
     md            |-> a.md \o b.md]

\* '\n'.join(content_parts) as the parser sees it: the frames whose content()
\* did not raise, in order (the comment lines between them carry no text)
RECURSIVE CombinedFrames(_)
CombinedFrames(frames) ==
    IF frames = << >> THEN BlankDoc
    ELSE IF ~Head(frames).ok THEN CombinedFrames(Tail(frames))
    ELSE IF \A i \in 1..Len(Tail(frames)) : ~Tail(frames)[i].ok THEN Head(frames).doc
    ELSE JoinDocs(Head(frames).doc, CombinedFrames(Tail(frames)))

\* extract_content_from_iframe, links.append for one resolved URL
SameDomainLink(full_url, base) ==
    IF is_same_domain(full_url, base) THEN <<normalize_url(full_url)>> ELSE << >>

\* extract_content_from_iframe, the body of the loop for one anchor
AnchorLink(href, js_url, context_url, base) ==
    IF js_url # << >> THEN SameDomainLink(js_url, base)
    ELSE SameDomainLink(urljoin(context_url, href), base)

\* extract_content_from_iframe, the loop over the anchors of one document:
\* the links it appends
RECURSIVE AnchorLinks(_, _, _)
AnchorLinks(anchors, context_url, base) ==
    IF anchors = << >> THEN << >>
    ELSE AnchorLink(Head(anchors), extract_url_from_javascript(Head(anchors), context_url),
                    context_url, base)
           \o AnchorLinks(Tail(anchors), context_url, base)

\* extract_content_from_iframe, the links of the frames whose content() did
\* not raise
RECURSIVE FrameLinks(_, _)
FrameLinks(frames, base) ==
    IF frames = << >> THEN << >>
    ELSE (IF Head(frames).ok
          THEN AnchorLinks(Head(frames).anchors, Head(frames).url, base) ELSE << >>)
         \o FrameLinks(Tail(frames), base)

\* page.frames of a rendering r of page_url: the root frame, which holds the
\* root document, then the nested frames
PageFrames(page_url, r) ==
    <<[url |-> page_url, doc |-> r.doc, anchors |-> r.anchors, ok |-> TRUE]>> \o r.frames

\* extract_content_from_iframe, "Use iframe content if meaningful"
FinalHtml(main_doc, content_parts, combined) ==
    IF content_parts # << >> /\ combined.textlen > MIN_IFRAME_TEXT_LENGTH
    THEN combined ELSE main_doc

\* WebScraper.extract_content_from_iframe: (final_html, links); the image list
\* is left out, it feeds only the optional downloads
extract_content_from_iframe(page_url, r, base) ==
    [final_html |-> FinalHtml(r.doc, SelectSeq(r.frames, LAMBDA f : f.ok),
                              CombinedFrames(r.frames)),
     links      |-> AnchorLinks(r.anchors, page_url, base)
                      \o FrameLinks(PageFrames(page_url, r), base)]

\* SeparateOne with the link put behind the links that follow it
SeparateOne_reversing(link, visited, rest) ==
    IF link \in visited THEN rest
    ELSE IF is_low_priority_url(link)
    THEN [high |-> rest.high, low |-> rest.low \o <<link>>]
    ELSE [high |-> rest.high \o <<link>>, low |-> rest.low]

\* SeparateOne without the test "link not in self.visited_urls"
SeparateOne_unfiltered(link, visited, rest) ==
    IF is_low_priority_url(link)
    THEN [high |-> rest.high, low |-> <<link>> \o rest.low]
    ELSE [high |-> <<link>> \o rest.high, low |-> rest.low]

\* scrape_page, "Separate high and low priority URLs": link is put before rest
SeparateOne(link, visited, rest) ==
    IF link \in visited THEN rest
    ELSE IF is_low_priority_url(link)
    THEN [high |-> rest.high, low |-> <<link>> \o rest.low]
    ELSE [high |-> <<link>> \o rest.high, low |-> rest.low]

\* scrape_page, "Separate high and low priority URLs"
RECURSIVE SeparateLinks(_, _)
SeparateLinks(links, visited) ==
    IF links = << >> THEN [high |-> << >>, low |-> << >>]
    ELSE SeparateOne(Head(links), visited, SeparateLinks(Tail(links), visited))

\* md_path when the loop has run counter times
NumberedPath(filename, counter) ==
    IF counter = 0 THEN filename \o <<".md">>
    ELSE filename \o <<" (", ToString(counter), ")", ".md">>

\* UniquePath with an if in place of the while loop
UniquePath_trying_once(files, filename, counter) ==
    IF NumberedPath(filename, 0) \in files THEN NumberedPath(filename, 1)
    ELSE NumberedPath(filename, 0)

\* scrape_page, "Ensure unique filename": the name written to
RECURSIVE UniquePath(_, _, _)
UniquePath(files, filename, counter) ==
    IF NumberedPath(filename, counter) \in files
    THEN UniquePath(files, filename, counter + 1)
    ELSE NumberedPath(filename, counter)

\* scrape_page, has_nav_title
HasNavTitle(query, menu_id, map) ==
    /\ query # << >>
    /\ menu_id # << >>
    /\ (<<"Menu_Item_ID=">> \o menu_id) \in DOMAIN map

\* scrape_page, the if/elif chain that sets filename
FilenameFor(url, page_title, is_home_page, has_nav_title) ==
    IF is_home_page /\ page_title = << >> THEN <<"Home">>
    ELSE IF is_home_page
    THEN IF has_nav_title THEN sanitize_filename(page_title) ELSE <<"Home">>
    ELSE IF page_title # << >> THEN sanitize_filename(page_title)
    ELSE get_safe_filename(url)

\* scrape_page, "Extract page title for readable filename": the file name
ChooseFilename(url, page_title, map, base) ==
    FilenameFor(url, page_title, normalize_url(url) = normalize_url(base),
                HasNavTitle(urlparse(url).query, MenuItemId(urlparse(url).query), map))

(***************************************************************************)
(* The inputs of the crawl: the site                                       *)
(***************************************************************************)
\* base_url as given to the constructor
BaseUrls ==
    {<<"https://", "t.org", "/">>,
     <<"https://", "t.org", "/", "?", "Menu_Item_ID=", "1">>}

\* href attributes
HrefA     == <<"/", "a">>
HrefB     == <<"https://", "t.org", "/", "b", "/", "#", "top">>
HrefHelp  == <<"/", "help", ".aspx", "?", "ID=", "1">>
HrefOther == <<"https://", "other.com", "/", "z">>
HrefAbout == <<"javascript:", "LinkTo(", "'", "/", "about", "'", ",", "'", "'", ")">>
HrefAlert == <<"javascript:", "alert(", "'", "hi", "'", ")">>

\* documents
DocNews ==
    [BlankDoc EXCEPT !.textlen = 250,
                     !.headings = <<[tag |-> "h1", text |-> <<"Scout", " ", "News">>]>>,
                     !.md = << <<"news">>, << >>, << >>, << >>, <<"more">> >>]

DocTroop ==
    [BlankDoc EXCEPT !.textlen = 250,
                     !.nav = <<[href |-> <<"/", "?", "Menu_Item_ID=", "1">>,
                                title |-> <<"Troop", " ", "7">>],
                               [href |-> <<"/", "a">>, title |-> <<"Events">>],
                               [href |-> <<"/", "?", "Menu_Item_ID=", "2">>,
                                title |-> <<"Menu">>]>>,
                     !.headings = <<[tag |-> "h2",
                                     text |-> <<"Welcome", " ", "to", " ", "Troop", " ", "7">>]>>,
                     !.title_tag = <<"Troop", " ", "7", " ", "-", " ", "t.org">>,
                     !.md = << <<"copyright", " ", "2020">>, <<"news">>, << >>,
                               <<"more">>, << >> >>]

DocBare == [BlankDoc EXCEPT !.textlen = 200, !.md = << <<"plain">> >>]

DocShort == [BlankDoc EXCEPT !.textlen = 60, !.md = << <<"short">> >>]

DocError ==
    [BlankDoc EXCEPT !.textlen = 250, !.server_error = TRUE, !.has_404 = TRUE,
                     !.md = << <<"Server", " ", "Error">> >>]

DocSlides ==
    [BlankDoc EXCEPT !.textlen = 40, !.loading_error = TRUE, !.google_ui = TRUE]

DocFrame ==
    [BlankDoc EXCEPT !.textlen = 201,
                     !.headings = <<[tag |-> "h1", text |-> <<"Events">>]>>,
                     !.md = << <<"events">> >>]

\* nested frames
FrameSlides ==
    [url |-> <<"https://", "docs.google.com", "/", "presentation", "/", "d", "/", "1">>,
     doc |-> DocSlides, anchors |-> << >>, ok |-> TRUE]

FrameLogin ==
    [url |-> <<"https://", "accounts.google.com", "/", "?", "continue=",
               "https://", "docs.google.com", "/", "document">>,
     doc |-> BlankDoc, anchors |-> << >>, ok |-> TRUE]

FrameContent ==
    [url |-> <<"https://", "t.org", "/", "frame">>, doc |-> DocFrame,
     anchors |-> <<HrefB>>, ok |-> TRUE]

FrameBroken ==
    [url |-> <<"https://", "t.org", "/", "frame">>, doc |-> DocFrame,
     anchors |-> <<HrefB>>, ok |-> FALSE]

\* what the browser can show for a URL: the root document, its anchors and the
\* nested frames. Any rendering can turn up at any URL.
Renderings ==
    {[doc |-> DocNews,  anchors |-> <<HrefA, HrefHelp>>,      frames |-> << >>],
     [doc |-> DocTroop, anchors |-> <<HrefB, HrefOther>>,     frames |-> << >>],
     [doc |-> DocBare,  anchors |-> <<HrefAbout, HrefAlert>>, frames |-> <<FrameBroken>>],
     [doc |-> DocShort, anchors |-> <<HrefA>>,                frames |-> << >>],
     [doc |-> DocShort, anchors |-> << >>,                    frames |-> <<FrameContent>>],
     [doc |-> DocError, anchors |-> <<HrefA>>,                frames |-> <<FrameSlides>>],
     [doc |-> DocError, anchors |-> << >>,                    frames |-> <<FrameLogin>>],
     [doc |-> DocNews,  anchors |-> << >>,                    frames |-> <<FrameSlides>>]}

\* where an exception can leave the try block of scrape_page: page.goto,
\* extract_content_from_iframe, or is_junk_page and what follows it
FailStages == {"goto", "extract", "classify"}

(***************************************************************************)
(* The crawl: WebScraper.__init__, scrape_page and the loop of scrape_site *)
(***************************************************************************)
VARIABLES
    base_url,            \* self.base_url
    max_pages,           \* self.max_pages
    visited_urls,        \* self.visited_urls
    saved_pages,         \* self.saved_pages: content hash -> file name
    url_title_map,       \* self.url_title_map
    high_priority_urls,  \* scrape_site's local list
    low_priority_urls,   \* scrape_site's local list
    files,               \* the names of the files in self.output_dir
    running,             \* the while loop of scrape_site has not been left
    writes,              \* how many times md_path.write_text has run
    builds,              \* how many times build_url_title_map_from_nav has run
    delay_elapsed,       \* time.sleep(self.delay) has run since the last page.goto
    last,                \* the last call of scrape_page: its argument and what it did
    call,                \* a call of one of the pure methods: [fn, ...arguments]
    result               \* << >> before the call returns, then <<value>>

vars == <<base_url, max_pages, visited_urls, saved_pages, url_title_map,
          high_priority_urls, low_priority_urls, files, running, writes, builds,
          delay_elapsed, last, call, result>>

\* the crawl leaves the single-method calls alone
harness == <<call, result>>

\* a call of scrape_page that returns [], [] without touching anything
NoEffect(kind) ==
    [kind |-> kind, visited |-> visited_urls, saved |-> saved_pages,
     map |-> url_title_map, files |-> files, high_pri |-> << >>, low_pri |-> << >>,
     navigated |-> FALSE, slept |-> FALSE, built |-> FALSE, wrote |-> FALSE,
     junk |-> FALSE, embeds |-> << >>, markdown |-> << << >> >>, hash |-> << << >> >>,
     title |-> << >>, filename |-> << >>, path |-> << >>, links |-> << >>]

\* scrape_page, the return with the links separated
ReturnLinks(c, separated) ==
    [c EXCEPT !.high_pri = separated.high, !.low_pri = separated.low, !.slept = TRUE]

\* scrape_page, from the write of the file to the return
WriteAndReturn(c, links, md_path) ==
    ReturnLinks([c EXCEPT !.kind = "saved", !.path = md_path, !.wrote = TRUE,
                          !.links = links,
                          !.files = files \cup {md_path},
                          !.saved = Put(saved_pages, c.hash, md_path)],
                SeparateLinks(links, c.visited))

\* scrape_page, from "Ensure unique filename" on
UniqueAndWrite(c, links, filename) ==
    WriteAndReturn([c EXCEPT !.filename = filename], links, UniquePath(files, filename, 0))

\* scrape_page, from the choice of the file name on
NameAndWrite(url, c, links, page_title) ==
    UniqueAndWrite([c EXCEPT !.title = page_title], links,
                   ChooseFilename(url, page_title, c.map, base_url))

\* SaveUnlessDuplicate without the test "content_hash in self.saved_pages"
SaveUnlessDuplicate_unchecked(url, c, extracted) ==
    NameAndWrite(url, c, extracted.links,
                 extract_page_title(extracted.final_html, url, c.map))

\* scrape_page, from the test of content_hash on
SaveUnlessDuplicate(url, c, extracted) ==
    IF c.hash \in DOMAIN saved_pages THEN [c EXCEPT !.kind = "duplicate"]
    ELSE NameAndWrite(url, c, extracted.links,
                      extract_page_title(extracted.final_html, url, c.map))

\* scrape_page, from "Check for duplicate content" on
DedupAndSave(url, c, extracted, markdown) ==
    SaveUnlessDuplicate(url, [c EXCEPT !.markdown = markdown, !.hash = ContentHash(markdown)],
                        extracted)

\* scrape_page, the markdown of a page that is not junk
ContentMarkdown(markdown, google_embeds) ==
    IF google_embeds # << >> THEN SpliceEmbedNotice(markdown, google_embeds) ELSE markdown

\* scrape_page, from the junk test on
ClassifyAndRender(url, c, extracted, google_embeds, is_junk) ==
    IF is_junk /\ google_embeds = << >>
    THEN [c EXCEPT !.kind = "junk", !.junk = TRUE]
    ELSE DedupAndSave(url, [c EXCEPT !.junk = is_junk, !.embeds = google_embeds], extracted,
                      IF is_junk THEN PlaceholderMarkdown(url, google_embeds)
                      ELSE ContentMarkdown(html_to_markdown(extracted.final_html, url),
                                           google_embeds))

\* BuildsMap without the test "len(self.visited_urls) == 1"
BuildsMap_on_any_page(visited) == DOMAIN url_title_map = {}

\* scrape_page, "Build URL-to-title mapping on first page": the map is built
BuildsMap(visited) == Cardinality(visited) = 1 /\ DOMAIN url_title_map = {}

\* scrape_page, after the build of the title map; c is the call so far
ClassifyUnlessRaised(url, fail, c, extracted, google_embeds) ==
    IF fail = "classify" THEN c
    ELSE ClassifyAndRender(url, c, extracted, google_embeds,
                           is_junk_page(url, extracted.final_html))

\* scrape_page, "Build URL-to-title mapping on first page"
BuildAndClassify(url, fail, c, extracted, google_embeds) ==
    ClassifyUnlessRaised(url, fail,
        [c EXCEPT !.built = BuildsMap(c.visited),
                  !.map = IF BuildsMap(c.visited)
                          THEN build_url_title_map_from_nav(url_title_map,
                                                            extracted.final_html, url)
                          ELSE url_title_map],
        extracted, google_embeds)

\* the urls of page.frames
FrameUrls(frames) == [i \in 1..Len(frames) |-> frames[i].url]

\* visited_urls.add(url) replaced by an assignment
MarkVisited_assigning(url) == {url}

\* scrape_page, self.visited_urls.add(url)
MarkVisited(url) == visited_urls \cup {url}

\* scrape_page, the call when page.goto is reached: until something else
\* happens it is a call that ends in the except clause
Entered(url) ==
    [NoEffect("error") EXCEPT !.visited = MarkVisited(url), !.navigated = TRUE]

\* scrape_page with the URL marked as visited only once page.goto and the
\* extraction have returned
scrape_page_marking_late(url, r, fail) ==
    IF url \in visited_urls THEN NoEffect("already_visited")
    ELSE IF Cardinality(visited_urls) >= max_pages THEN NoEffect("max_pages")
    ELSE IF fail \in {"goto", "extract"}
    THEN [NoEffect("error") EXCEPT !.navigated = TRUE]
    ELSE BuildAndClassify(url, fail, Entered(url),
                          extract_content_from_iframe(url, r, base_url),
                          detect_google_embeds(FrameUrls(PageFrames(url, r))))

\* WebScraper.scrape_page(page, url): what the call does when the browser shows
\* rendering r and stage fail raises ("none": nothing raises)
scrape_page(url, r, fail) ==
    IF url \in visited_urls THEN NoEffect("already_visited")
    ELSE IF Cardinality(visited_urls) >= max_pages THEN NoEffect("max_pages")
    ELSE IF fail \in {"goto", "extract"} THEN Entered(url)
    ELSE BuildAndClassify(url, fail, Entered(url),
                          extract_content_from_iframe(url, r, base_url),
                          detect_google_embeds(FrameUrls(PageFrames(url, r))))

\* NextSource without the test of LOW_PRIORITY_THRESHOLD
NextSource_unthrottled ==
    IF high_priority_urls # << >> THEN "high"
    ELSE IF low_priority_urls # << >> THEN "low"
    ELSE "empty"

\* scrape_site, the if/elif chain of the loop body: the queue popped, or why
\* the loop breaks
NextSource ==
    IF high_priority_urls # << >> THEN "high"
    ELSE IF /\ low_priority_urls # << >>
            /\ Cardinality(visited_urls) * LOW_PRIORITY_THRESHOLD_DEN
                 < max_pages * LOW_PRIORITY_THRESHOLD_NUM
    THEN "low"
    ELSE IF low_priority_urls # << >> THEN "skip_low"
    ELSE "empty"

\* the loop condition always true: only the breaks leave the loop
LoopGuard_always == TRUE

\* scrape_site, the loop condition
LoopGuard == Cardinality(visited_urls) < max_pages

\* __init__ and the first lines of scrape_site
Init ==
    /\ base_url \in BaseUrls
    /\ max_pages \in 0..MaxPagesCap
    /\ visited_urls = {}
    /\ saved_pages = EmptyMap
    /\ url_title_map = EmptyMap
    /\ high_priority_urls = <<normalize_url(base_url)>>
    /\ low_priority_urls = << >>
    /\ files = {}
    /\ running = TRUE
    /\ writes = 0
    /\ builds = 0
    /\ delay_elapsed = TRUE
    /\ last = [NoEffect("none") EXCEPT !.visited = {}, !.saved = EmptyMap,
                                       !.map = EmptyMap, !.files = {}]
                 @@ [url |-> << >>, from |-> "none"]
    /\ call = [fn |-> "none"]
    /\ result = << >>

\* one pass of the while loop that pops a URL and calls scrape_page
LoopIteration(r, fail) ==
    /\ running
    /\ LoopGuard
    /\ NextSource \in {"high", "low"}
    /\ LET from == NextSource
           url  == IF from = "high" THEN Head(high_priority_urls)
                   ELSE Head(low_priority_urls)
           res  == scrape_page(url, r, fail)
       IN  /\ visited_urls' = res.visited
           /\ saved_pages' = res.saved
           /\ url_title_map' = res.map
           /\ files' = res.files
           /\ high_priority_urls' =
                  (IF from = "high" THEN Tail(high_priority_urls) ELSE high_priority_urls)
                    \o res.high_pri
           /\ low_priority_urls' =
                  (IF from = "low" THEN Tail(low_priority_urls) ELSE low_priority_urls)
                    \o res.low_pri
           /\ writes' = IF res.wrote THEN writes + 1 ELSE writes
           /\ builds' = IF res.built THEN builds + 1 ELSE builds
           /\ delay_elapsed' = IF res.navigated THEN res.slept ELSE delay_elapsed
           /\ last' = res @@ [url |-> url, from |-> from]
    /\ UNCHANGED <<base_url, max_pages, running, harness>>

\* the loop breaks with low-priority URLs left over
StopSkippingLow ==
    /\ running
    /\ LoopGuard
    /\ NextSource = "skip_low"
    /\ running' = FALSE
    /\ UNCHANGED <<base_url, max_pages, visited_urls, saved_pages, url_title_map,
                   high_priority_urls, low_priority_urls, files, writes, builds,
                   delay_elapsed, last, harness>>

\* the loop breaks with both queues empty
StopQueuesEmpty ==
    /\ running
    /\ LoopGuard
    /\ NextSource = "empty"
    /\ running' = FALSE
    /\ UNCHANGED <<base_url, max_pages, visited_urls, saved_pages, url_title_map,
                   high_priority_urls, low_priority_urls, files, writes, builds,
                   delay_elapsed, last, harness>>

\* the loop condition fails
StopMaxPages ==
    /\ running
    /\ ~LoopGuard
    /\ running' = FALSE
    /\ UNCHANGED <<base_url, max_pages, visited_urls, saved_pages, url_title_map,
                   high_priority_urls, low_priority_urls, files, writes, builds,
                   delay_elapsed, last, harness>>

Next ==
    \/ \E r \in Renderings, fail \in {"none"} \cup FailStages : LoopIteration(r, fail)
    \/ StopSkippingLow
    \/ StopQueuesEmpty
    \/ StopMaxPages

Spec == Init /\ [][Next]_vars

\* scrape_site is sequential code: while the loop has not been left, its next
\* pass or its exit is taken
FairSpec == Spec /\ WF_vars(Next)

(***************************************************************************)
(* is_junk_page called on its own                                          *)
(***************************************************************************)
\* the url argument
JunkUrls ==
    {<<"https://", "t.org", "/", "a">>,
     <<"https://", "t.org", "/", "about">>,
     <<"https://", "t.org", "/", "FAQ">>,
     <<"https://", "t.org", "/", "resources", "/", "x">>,
     <<"https://", "t.org", "/", "Guide">>,
     <<"https://", "t.org", "/", "help", ".aspx", "?", "ID=", "1">>,
     <<"https://", "t.org", "/", "FormLoginHelp", ".aspx">>,
     <<"https://", "t.org", "/", "about", "/", "FormDetail", ".aspx", "?", "Form_ID=", "5184">>}

\* len(text) of the html_content argument
JunkTextLengths ==
    {0, 31, MIN_IMPORTANT_PAGE_TEXT_LENGTH - 1, MIN_IMPORTANT_PAGE_TEXT_LENGTH,
     MIN_PAGE_TEXT_LENGTH - 1, MIN_PAGE_TEXT_LENGTH}

\* the html_content argument as the classifier reads it; the phrases of a
\* loading error and of the slides UI are part of the text, so a text that has
\* both has at least the 31 characters of the shortest pair
JunkDocs ==
    {[BlankDoc EXCEPT !.textlen = n, !.server_error = f[1], !.has_404 = f[2],
                      !.not_found = f[3], !.loading_error = f[4], !.google_ui = f[5]] :
        <<n, f>> \in {x \in JunkTextLengths \X [1..5 -> BOOLEAN] :
                        (x[2][4] \/ x[2][5]) => x[1] >= 31}}

InitJunk ==
    /\ base_url = <<"https://", "t.org", "/">>
    /\ max_pages = 0
    /\ visited_urls = {}
    /\ saved_pages = EmptyMap
    /\ url_title_map = EmptyMap
    /\ high_priority_urls = << >>
    /\ low_priority_urls = << >>
    /\ files = {}
    /\ running = FALSE
    /\ writes = 0
    /\ builds = 0
    /\ delay_elapsed = TRUE
    /\ last = [kind |-> "none"]
    /\ \E url \in JunkUrls, doc \in JunkDocs :
           call = [fn |-> "is_junk_page", url |-> url, doc |-> doc]
    /\ result = << >>

\* the call returns
ReturnJunk ==
    /\ call.fn = "is_junk_page"
    /\ result = << >>
    /\ result' = <<is_junk_page(call.url, call.doc)>>
    /\ UNCHANGED <<base_url, max_pages, visited_urls, saved_pages, url_title_map,
                   high_priority_urls, low_priority_urls, files, running, writes,
                   builds, delay_elapsed, last, call>>

NextJunk == ReturnJunk

SpecJunk == InitJunk /\ [][NextJunk]_vars

(***************************************************************************)
(* The single-method calls: the crawl is not running                       *)
(***************************************************************************)
\* the state of a scraper whose scrape_site is not running, but for files,
\* writes, call and result
NoCrawl ==
    /\ base_url = <<"https://", "t.org", "/">>
    /\ max_pages = 0
    /\ visited_urls = {}
    /\ saved_pages = EmptyMap
    /\ url_title_map = EmptyMap
    /\ high_priority_urls = << >>
    /\ low_priority_urls = << >>
    /\ running = FALSE
    /\ builds = 0
    /\ delay_elapsed = TRUE
    /\ last = [kind |-> "none"]

\* a single-method call leaves the crawl alone
crawl_vars ==
    <<base_url, max_pages, visited_urls, saved_pages, url_title_map, high_priority_urls,
      low_priority_urls, running, builds, delay_elapsed, last>>

(***************************************************************************)
(* scrape_page, "Ensure unique filename" and the write, on their own       *)
(***************************************************************************)
\* how many files are written in a row
MaxSaves == 2

\* filename
SaveNames == {<<"Home">>, <<"Events">>}

\* the files that can be in output_dir before the first write
SaveDirFiles ==
    {<<"Home", ".md">>, <<"Home", " (", "1", ")", ".md">>, <<"Home", " (", "2", ")", ".md">>,
     <<"Home", " (", "3", ")", ".md">>, <<"Events", ".md">>,
     <<"Events", " (", "2", ")", ".md">>}

InitSave ==
    /\ NoCrawl
    /\ files \in SUBSET SaveDirFiles
    /\ writes = 0
    /\ call = [fn |-> "write_text", filename |-> << >>]
    /\ result = << >>

\* md_path is chosen and md_path.write_text runs
WriteFile(filename) ==
    /\ call.fn = "write_text"
    /\ writes < MaxSaves
    /\ call' = [fn |-> "write_text", filename |-> filename]
    /\ result' = <<UniquePath(files, filename, 0)>>
    /\ files' = files \cup {UniquePath(files, filename, 0)}
    /\ writes' = writes + 1
    /\ UNCHANGED crawl_vars

NextSave == \E filename \in SaveNames : WriteFile(filename)

SpecSave == InitSave /\ [][NextSave]_vars

(***************************************************************************)
(* normalize_url, is_low_priority_url and extract_content_from_iframe      *)
(* called on their own                                                     *)
(***************************************************************************)
\* the url argument of normalize_url: absolute and relative, with and without
\* trailing slashes, query and fragment
NormalizeUrls ==
    {host \o path \o (IF query # << >> THEN <<"?">> \o query ELSE << >>)
          \o (IF fragment # << >> THEN <<"#">> \o fragment ELSE << >>) :
        host \in {<<"https://", "t.org">>, << >>},
        path \in {<< >>, <<"/">>, <<"/", "page">>, <<"/", "page", "/">>,
                  <<"/", "a", "/", "b">>, <<"/", "a", "/", "b", "/">>,
                  <<"/", "page", "/", "/">>},
        query \in {<< >>, <<"q=1">>},
        fragment \in {<< >>, <<"top">>}}

\* the url argument of is_low_priority_url
LowPriorityUrls ==
    {<<"https://", "t.org">> \o dir \o <<file, ext>> \o query :
        dir \in {<<"/">>, <<"/", "my">>},
        file \in {"help", "Help", "HELP", "about"},
        ext \in {".aspx", ".ASPX", ".html"},
        query \in {<< >>, <<"?", "ID=", "1">>, <<"?", "id=", "1">>}}

\* the nested frames of the page given to extract_content_from_iframe: up to
\* two, each with a text of 0 to 201 characters, each readable or not
NestedFrames ==
    SeqUpTo({[url |-> <<"https://", "t.org", "/", "frame">>,
              doc |-> [BlankDoc EXCEPT !.textlen = n, !.md = << <<"events">> >>],
              anchors |-> << >>, ok |-> ok] :
                n \in {0, 100, MIN_IFRAME_TEXT_LENGTH - 1, MIN_IFRAME_TEXT_LENGTH,
                       MIN_IFRAME_TEXT_LENGTH + 1},
                ok \in BOOLEAN}, 2)

InitCalls ==
    /\ NoCrawl
    /\ files = {}
    /\ writes = 0
    /\ \/ \E url \in NormalizeUrls : call = [fn |-> "normalize_url", url |-> url]
       \/ \E url \in LowPriorityUrls : call = [fn |-> "is_low_priority_url", url |-> url]
       \/ \E frames \in NestedFrames :
             call = [fn |-> "extract_content_from_iframe",
                     url |-> <<"https://", "t.org", "/", "a">>,
                     r |-> [doc |-> DocBare, anchors |-> <<HrefA>>, frames |-> frames]]
    /\ result = << >>

\* normalize_url returns
ReturnNormalize ==
    /\ call.fn = "normalize_url"
    /\ result = << >>
    /\ result' = <<normalize_url(call.url)>>
    /\ UNCHANGED <<crawl_vars, files, writes, call>>

\* is_low_priority_url returns
ReturnLowPriority ==
    /\ call.fn = "is_low_priority_url"
    /\ result = << >>
    /\ result' = <<is_low_priority_url(call.url)>>
    /\ UNCHANGED <<crawl_vars, files, writes, call>>

\* extract_content_from_iframe returns
ReturnExtracted ==
    /\ call.fn = "extract_content_from_iframe"
    /\ result = << >>
    /\ result' = <<extract_content_from_iframe(call.url, call.r, base_url)>>
    /\ UNCHANGED <<crawl_vars, files, writes, call>>

NextCalls == ReturnNormalize \/ ReturnLowPriority \/ ReturnExtracted

SpecCalls == InitCalls /\ [][NextCalls]_vars

(***************************************************************************)
(* Properties of the crawl                                                 *)
(***************************************************************************)
\* the elements of both queues
Frontier == Range(high_priority_urls) \cup Range(low_priority_urls)

\* s is what the queue q ends with
EndsWith(q, s) ==
    /\ Len(s) <= Len(q)
    /\ SubSeq(q, Len(q) - Len(s) + 1, Len(q)) = s

\* a step of the crawl that navigated to a page
Navigates == visited_urls' # visited_urls

\* C1, as the specification states it: between the iterations of the loop
\* neither queue holds a URL that is in visited_urls.
C1_FrontierNeverVisited == \A u \in Frontier : u \notin visited_urls

\* C1, amended: the links a call of scrape_page hands to the queues are put at
\* their ends and none of them is in visited_urls when it is appended; a queue
\* entry that has been visited since it was appended is popped without a
\* navigation, a write or a new link.
C1_AppendedLinksUnvisited ==
    /\ EndsWith(high_priority_urls, last.high_pri)
    /\ EndsWith(low_priority_urls, last.low_pri)
    /\ \A u \in Range(last.high_pri) \cup Range(last.low_pri) : u \notin visited_urls
    /\ last.kind = "already_visited"
         => /\ last.url \in visited_urls
            /\ ~last.navigated /\ ~last.wrote
            /\ last.high_pri = << >> /\ last.low_pri = << >>

\* a page has handed links to the queues while a queue holds a visited URL
C1_Witness ==
    /\ last.kind = "saved"
    /\ last.high_pri # << >>
    /\ \E u \in Frontier : u \in visited_urls

\* the body of a markdown document: the text after the two lines of the
\* "# Source:" header, stripped
C2_Body(markdown) == StripText(SubSeq(markdown, MARKDOWN_HEADER_LINES + 1, Len(markdown)))

\* C2: a page whose body (the markdown after the "# Source:" header, stripped)
\* equals the body of a page written before writes no file and leaves
\* saved_pages alone; a page that is written has a body not seen before; so
\* the number of files written equals the number of hashes in saved_pages.
C2_DuplicateBodiesWrittenOnce ==
    /\ [](writes = Cardinality(DOMAIN saved_pages))
    /\ [][/\ (Navigates /\ last'.kind \in {"saved", "duplicate"})
               => /\ last'.hash = C2_Body(last'.markdown)
                  /\ (last'.kind = "duplicate") = (last'.hash \in DOMAIN saved_pages)
          /\ (Navigates /\ last'.kind = "duplicate")
               => /\ files' = files
                  /\ saved_pages' = saved_pages
                  /\ writes' = writes
          /\ (writes' # writes)
               => /\ last'.hash \notin DOMAIN saved_pages
                  /\ writes' = writes + 1
                  /\ DOMAIN saved_pages' = DOMAIN saved_pages \cup {last'.hash}]_vars

\* a page has been skipped because its body was that of a page written before
C2_Witness ==
    /\ last.kind = "duplicate"
    /\ writes >= 1
    /\ last.path = << >>

\* C3: a URL is popped from the low-priority queue only when the
\* high-priority queue is empty and len(visited_urls) < 0.8 * max_pages; with
\* the high-priority queue empty, low-priority entries left and the count at
\* 0.8 * max_pages or more, the loop is left, and once it is left nothing is
\* processed any more.
C3_LowPriorityThrottled ==
    [][/\ (running' /\ last'.from = "low")
            => /\ high_priority_urls = << >>
               /\ low_priority_urls # << >>
               /\ last'.url = Head(low_priority_urls)
               /\ Cardinality(visited_urls) * LOW_PRIORITY_THRESHOLD_DEN
                    < max_pages * LOW_PRIORITY_THRESHOLD_NUM
       /\ (/\ running
           /\ high_priority_urls = << >>
           /\ low_priority_urls # << >>
           /\ Cardinality(visited_urls) * LOW_PRIORITY_THRESHOLD_DEN
                >= max_pages * LOW_PRIORITY_THRESHOLD_NUM)
            => /\ ~running'
               /\ low_priority_urls' = low_priority_urls
               /\ visited_urls' = visited_urls
       /\ ~running => FALSE]_vars

\* the last URL processed came from the low-priority queue and the crawl has
\* stopped with low-priority entries left over and pages to spare
C3_Witness ==
    /\ last.from = "low"
    /\ ~running
    /\ low_priority_urls # << >>
    /\ Cardinality(visited_urls) < max_pages

\* C4: visited_urls never holds more than max_pages URLs, no page is navigated
\* to once it holds max_pages, and it never loses an element.
C4_PageCap ==
    /\ [](Cardinality(visited_urls) <= max_pages)
    /\ [][/\ visited_urls \subseteq visited_urls'
          /\ Navigates => Cardinality(visited_urls) < max_pages]_vars

\* the cap has been reached with URLs still waiting
C4_Witness ==
    /\ max_pages >= 2
    /\ Cardinality(visited_urls) = max_pages
    /\ high_priority_urls # << >>

\* C5: a call of scrape_page in which the navigation, the extraction or the
\* classification raises writes no file, hands no link to either queue,
\* leaves saved_pages alone and does not end the loop; its URL is in
\* visited_urls, and no URL in visited_urls is navigated to again.
C5_FailedPageIsolated ==
    [][/\ (Navigates /\ last'.kind = "error")
            => /\ files' = files
               /\ writes' = writes
               /\ saved_pages' = saved_pages
               /\ Len(high_priority_urls') + Len(low_priority_urls')
                    = Len(high_priority_urls) + Len(low_priority_urls) - 1
               /\ last'.url \notin Range(high_priority_urls' \o low_priority_urls')
                    \/ last'.url \in Range(Tail(high_priority_urls \o low_priority_urls))
               /\ running'
       /\ (running' /\ last'.kind = "error") => last'.url \in visited_urls'
       /\ (running' /\ last'.navigated) => last'.url \notin visited_urls]_vars

\* a page has failed and the crawl has gone on to save another one
C5_Witness ==
    /\ last.kind = "error"
    /\ last.url \in visited_urls
    /\ writes >= 1
    /\ high_priority_urls # << >>

\* the URL matches one of the patterns of the important pages
C6_Important(url) ==
    \/ Contains(Lower(url), <<"/", "faq">>)
    \/ Contains(Lower(url), <<"/", "resources", "/">>)
    \/ Contains(Lower(url), <<"/", "about">>)
    \/ Contains(Lower(url), <<"/", "guide">>)
    \/ Contains(Lower(url), <<"/", "help">>)

\* the URL is one of the known-broken endpoints
C6_KnownBroken(url) ==
    \/ Contains(url, <<"FormLoginHelp", ".aspx">>)
    \/ Contains(url, <<"FormDetail", ".aspx", "?", "Form_ID=", "5184">>)

\* is_junk_page has returned for an important URL that is not known-broken
C6_ImportantReturned ==
    /\ call.fn = "is_junk_page"
    /\ result # << >>
    /\ C6_Important(call.url)
    /\ ~C6_KnownBroken(call.url)

\* C6, as the specification states it: for an important URL that is not a
\* known-broken endpoint is_junk_page returns true exactly when the text has
\* fewer than 50 characters, whatever error phrases the page contains.
C6_ImportantJunkOnlyWhenShort ==
    C6_ImportantReturned
      => result[1] = (call.doc.textlen < MIN_IMPORTANT_PAGE_TEXT_LENGTH)

\* C6, amended: for an important URL that is not a known-broken endpoint
\* is_junk_page returns true exactly when the page has 'Server Error' and
\* '404', or 'The resource cannot be found', or a Google loading error
\* together with the slides UI, or a text of fewer than 50 characters: the
\* exemption replaces only the generic test of 200 characters.
C6_ImportantJunkWhenShortOrErrorPage ==
    C6_ImportantReturned
      => result[1] = (\/ call.doc.textlen < MIN_IMPORTANT_PAGE_TEXT_LENGTH
                      \/ call.doc.server_error /\ call.doc.has_404
                      \/ call.doc.not_found
                      \/ call.doc.loading_error /\ call.doc.google_ui)

\* an important page of 50 to 199 characters that mentions 'Server Error'
\* but not '404' has been kept
C6_Witness ==
    /\ C6_ImportantReturned
    /\ call.doc.textlen >= MIN_IMPORTANT_PAGE_TEXT_LENGTH
    /\ call.doc.textlen < MIN_PAGE_TEXT_LENGTH
    /\ call.doc.server_error /\ ~call.doc.has_404
    /\ result = <<FALSE>>

\* the host of the URL is that of Google Docs or Google Drive
C7_GoogleHost(u) == urlparse(u).netloc \in {<<"docs.google.com">>, <<"drive.google.com">>}

\* C7: a junk page with a frame on a Google Docs/Drive host is saved as a
\* placeholder and goes on to the dedup, the file name and the links; a junk
\* page with no such frame writes no file and hands over no link.
C7_JunkSavedOnlyWithGoogleFrame ==
    /\ (last.junk /\ last.kind \in {"saved", "duplicate"})
         => /\ \E i \in 1..Len(last.embeds) : C7_GoogleHost(last.embeds[i])
            /\ last.markdown = PlaceholderMarkdown(last.url, last.embeds)
    /\ (last.junk /\ \A i \in 1..Len(last.embeds) : ~C7_GoogleHost(last.embeds[i]))
         => /\ ~last.wrote
            /\ last.high_pri = << >> /\ last.low_pri = << >>

\* C8: build_url_title_map_from_nav runs during the processing of at most
\* one page, and url_title_map changes in no step but that one.
C8_TitleMapBuiltOnce ==
    /\ [](builds <= 1)
    /\ [][/\ builds' # builds => (builds = 0 /\ last'.built)
          /\ url_title_map' # url_title_map => (builds = 0 /\ builds' = 1)
          /\ (running' /\ builds >= 1) => (~last'.built /\ last'.map = url_title_map)]_vars

\* the map has been built from the first page and pages have been saved since
C8_Witness ==
    /\ builds = 1
    /\ DOMAIN url_title_map # {}
    /\ Cardinality(visited_urls) >= 3
    /\ ~last.built
    /\ last.kind = "saved"

\* C9: after every page navigated to, whatever becomes of it, the delay
\* elapses before the navigation to the next URL begins.
C9_DelayBeforeNextNavigation == [][Navigates => delay_elapsed]_vars

\* the title is generic: it contains the site domain, 'troop' or 'welcome'
C10_Generic(title) ==
    \/ Contains(Lower(title), Lower(urlparse(base_url).netloc))
    \/ Contains(Lower(title), <<"troop">>)
    \/ Contains(Lower(title), <<"welcome">>)

\* the Menu_Item_ID of the URL has an entry in the navigation title map
C10_InNavMap(url, map) ==
    /\ MenuItemId(urlparse(url).query) # << >>
    /\ (<<"Menu_Item_ID=">> \o MenuItemId(urlparse(url).query)) \in DOMAIN map

\* C10: the file of the home page is named 'Home' when no title was resolved,
\* or when the title is generic and the URL's Menu_Item_ID has no entry in
\* the navigation title map; otherwise it is named after the sanitized title.
C10_HomeFilename ==
    (last.kind = "saved" /\ normalize_url(last.url) = normalize_url(base_url))
      => last.filename =
           IF \/ last.title = << >>
              \/ C10_Generic(last.title) /\ ~C10_InNavMap(last.url, last.map)
           THEN <<"Home">>
           ELSE sanitize_filename(last.title)

(***************************************************************************)
(* Properties of the single methods                                        *)
(***************************************************************************)
\* '<name>.md' for n = 0, '<name> (n).md' otherwise
C11_Path(name, n) ==
    IF n = 0 THEN name \o <<".md">> ELSE name \o <<" (", ToString(n), ")", ".md">>

\* C11: a page is written to '<name>.md' when no such file exists, otherwise
\* to '<name> (n).md' for the smallest n >= 1 for which no such file exists;
\* the file written did not exist before, and no other file changes.
C11_SmallestFreeName ==
    [][writes' # writes
         => /\ result'[1] \notin files
            /\ files' = files \cup {result'[1]}
            /\ \E n \in 0..Cardinality(files) :
                  /\ result'[1] = C11_Path(call'.filename, n)
                  /\ \A k \in 0..(n - 1) : C11_Path(call'.filename, k) \in files]_vars

\* a page has been written to 'Home (2).md' because 'Home.md' and
\* 'Home (1).md' were there
C11_Witness ==
    /\ call.fn = "write_text"
    /\ result = << <<"Home", " (", "2", ")", ".md">> >>
    /\ <<"Home", ".md">> \in files
    /\ <<"Home", " (", "1", ")", ".md">> \in files
    /\ writes = MaxSaves

\* the URLs u and v differ by their fragments only
C12_DifferByFragment(u, v) ==
    /\ urlparse(u).fragment # urlparse(v).fragment
    /\ [urlparse(u) EXCEPT !.fragment = << >>] = [urlparse(v) EXCEPT !.fragment = << >>]

\* the URLs u and v differ only by one slash at the end of the path of v,
\* and that path is not the root: the path of u is neither '' nor '/'
C12_DifferByTrailingSlash(u, v) ==
    /\ urlparse(u).path \notin {<< >>, <<"/">>}
    /\ urlparse(v).path = urlparse(u).path \o <<"/">>
    /\ [urlparse(u) EXCEPT !.path = << >>] = [urlparse(v) EXCEPT !.path = << >>]

\* C12: normalize_url gives the same output for two URLs that differ only by
\* a fragment or only by a trailing slash on a non-root path; the output has
\* the scheme, the host and the query of the input and no fragment; the path
\* '/' keeps its slash: normalize('https://x/') = 'https://x/' and
\* normalize('https://x/page/') = 'https://x/page'.
C12_NormalizeIdentifies ==
    (call.fn = "normalize_url" /\ result # << >>)
      => /\ \A v \in NormalizeUrls :
               (\/ C12_DifferByFragment(call.url, v)
                \/ C12_DifferByFragment(v, call.url)
                \/ C12_DifferByTrailingSlash(call.url, v)
                \/ C12_DifferByTrailingSlash(v, call.url))
                 => normalize_url(v) = result[1]
         /\ urlparse(result[1]).scheme = urlparse(call.url).scheme
         /\ urlparse(result[1]).netloc = urlparse(call.url).netloc
         /\ urlparse(result[1]).query = urlparse(call.url).query
         /\ urlparse(result[1]).fragment = << >>
         /\ urlparse(call.url).path = <<"/">> => urlparse(result[1]).path = <<"/">>
         /\ call.url = <<"https://", "t.org", "/">> => result[1] = <<"https://", "t.org", "/">>
         /\ call.url = <<"https://", "t.org", "/", "page", "/">>
              => result[1] = <<"https://", "t.org", "/", "page">>

\* 'https://t.org/page/?q=1#top' has been normalized to 'https://t.org/page?q=1'
C12_Witness ==
    /\ call.fn = "normalize_url"
    /\ call.url = <<"https://", "t.org", "/", "page", "/", "?", "q=1", "#", "top">>
    /\ result = << <<"https://", "t.org", "/", "page", "?", "q=1">> >>

(***************************************************************************)
(* More properties of the crawl                                            *)
(***************************************************************************)
\* C13: an anchor whose href is a javascript: expression other than
\* LinkTo('<target>', ...) yields no link: no javascript: URL is among the
\* links of a page, in a queue or in visited_urls.
C13_NoJavascriptUrlQueued ==
    \A u \in Range(last.high_pri) \cup Range(last.low_pri) \cup Frontier \cup visited_urls :
        u = << >> \/ Head(u) # "javascript:"

\* C14, as the specification states it: is_low_priority_url returns true
\* exactly for the URLs that contain '/help.aspx' in any letter case or
\* contain 'help.aspx?ID='.
C14_LowPriorityAnyCase ==
    (call.fn = "is_low_priority_url" /\ result # << >>)
      => result[1] = (\/ Contains(Lower(call.url), <<"/", "help", ".aspx">>)
                      \/ Contains(call.url, <<"help", ".aspx", "?", "ID=">>))

\* C14, amended: is_low_priority_url returns true exactly for the URLs that
\* contain '/help.aspx' or '/Help.aspx', spelled in just these two ways, or
\* contain 'help.aspx?ID='; in any other letter case ('/HELP.aspx',
\* '/help.ASPX', 'help.aspx?id=') the URL is not low priority.
C14_LowPriorityTwoSpellings ==
    (call.fn = "is_low_priority_url" /\ result # << >>)
      => result[1] = (\/ Contains(call.url, <<"/", "help", ".aspx">>)
                      \/ Contains(call.url, <<"/", "Help", ".aspx">>)
                      \/ Contains(call.url, <<"help", ".aspx", "?", "ID=">>))

\* 'https://t.org/HELP.aspx' has been found not to be low priority
C14_Witness ==
    /\ call.fn = "is_low_priority_url"
    /\ call.url = <<"https://", "t.org", "/", "HELP", ".aspx">>
    /\ result = <<FALSE>>

\* the host of the URL is the host of base_url, or the URL has no host
C15_InScope(u) == urlparse(u).netloc \in {urlparse(base_url).netloc, << >>}

\* C15: is_same_domain is true exactly for the URLs whose host is the base
\* host or empty, and every URL handed to a queue, waiting in a queue or in
\* visited_urls, but for the base URL the crawl starts with, is such a URL:
\* a link to another host is dropped when the links are extracted.
C15_CrawlStaysOnHost ==
    /\ \A u \in Range(last.high_pri) \cup Range(last.low_pri) \cup Frontier \cup visited_urls :
          u = normalize_url(base_url) \/ C15_InScope(u)
    /\ \A u \in Frontier \cup {HrefOther, HrefB, HrefA, HrefAlert} :
          is_same_domain(u, base_url) = C15_InScope(u)

\* a page that links to https://t.org/b/#top and to https://other.com/z has
\* been saved and has handed over the first link only
C15_Witness ==
    /\ last.kind = "saved"
    /\ last.title = <<"Troop", " ", "7">>
    /\ last.high_pri = << <<"https://", "t.org", "/", "b">>, <<"https://", "t.org", "/", "b">> >>
    /\ last.low_pri = << >>

\* the first URL popped has failed before the title map could be built
C16_FirstPageFailed ==
    /\ Cardinality(visited_urls) = 1
    /\ last.kind = "error"
    /\ builds = 0

C17_Kept(links, visited, low) ==
    SelectSeq(links, LAMBDA u : u \notin visited /\ is_low_priority_url(u) = low)

\* the queue after the pop of its head when it is the one named by from
C17_Popped(queue, name, from) == IF from = name THEN Tail(queue) ELSE queue

\* C17: the URL processed is the head of its queue; after a page is saved
\* each queue is what was left of it followed by the extracted links of its
\* priority class that are not in visited_urls, in the order of extraction;
\* a URL that was already visited, is junk without an embed, is a duplicate
\* or has failed adds nothing to either queue.
C17_LinksAppendedInOrder ==
    [][running'
         => /\ last'.from = "high" => last'.url = Head(high_priority_urls)
            /\ last'.from = "low" => last'.url = Head(low_priority_urls)
            /\ high_priority_urls'
                 = C17_Popped(high_priority_urls, "high", last'.from)
                     \o (IF last'.kind = "saved"
                         THEN C17_Kept(last'.links, visited_urls', FALSE) ELSE << >>)
            /\ low_priority_urls'
                 = C17_Popped(low_priority_urls, "low", last'.from)
                     \o (IF last'.kind = "saved"
                         THEN C17_Kept(last'.links, visited_urls', TRUE) ELSE << >>)]_vars

\* a saved page has added links to the ends of both queues while the
\* high-priority queue still held earlier entries
C17_Witness ==
    /\ last.kind = "saved"
    /\ Len(last.high_pri) >= 2
    /\ last.low_pri # << >>
    /\ Len(high_priority_urls) > Len(last.high_pri)
    /\ Len(last.links) >= 4

\* len(iframe_text): the characters of text in the nested frames that could
\* be read
RECURSIVE C18_FrameTextLength(_)
C18_FrameTextLength(frames) ==
    IF frames = << >> THEN 0
    ELSE (IF Head(frames).ok THEN Head(frames).doc.textlen ELSE 0)
           + C18_FrameTextLength(Tail(frames))

\* C18: extract_content_from_iframe returns the html of the nested frames in
\* place of the root html exactly when a nested frame was read and their text
\* has at least 200 characters, 200 included; otherwise it returns the root
\* html.
C18_FramesReplaceRootFrom200 ==
    (call.fn = "extract_content_from_iframe" /\ result # << >>)
      => IF /\ \E i \in 1..Len(call.r.frames) : call.r.frames[i].ok
            /\ C18_FrameTextLength(call.r.frames) >= 200
         THEN result[1].final_html = CombinedFrames(call.r.frames)
         ELSE result[1].final_html = call.r.doc

\* a pass of the loop that visits a new page: visited_urls gains exactly the
\* popped URL and stays within max_pages
C19_VisitsNew ==
    /\ last'.url \notin visited_urls
    /\ visited_urls' = visited_urls \cup {last'.url}
    /\ Cardinality(visited_urls') <= max_pages

\* a pass of the loop that drops a queue entry whose URL was visited before:
\* one entry leaves the queues and none is appended
C19_DropsVisited ==
    /\ last'.url \in visited_urls
    /\ visited_urls' = visited_urls
    /\ Len(high_priority_urls') + Len(low_priority_urls')
         = Len(high_priority_urls) + Len(low_priority_urls) - 1

\* the three ways the loop is left
C19_Ended ==
    \/ Cardinality(visited_urls) >= max_pages
    \/ high_priority_urls = << >> /\ low_priority_urls = << >>
    \/ /\ high_priority_urls = << >>
       /\ low_priority_urls # << >>
       /\ Cardinality(visited_urls) * LOW_PRIORITY_THRESHOLD_DEN
            >= max_pages * LOW_PRIORITY_THRESHOLD_NUM

\* C19: the scrape_site loop terminates; every pass that stays in the loop
\* either visits a new URL, within max_pages, or drops an already visited queue
\* entry and appends nothing; and the loop is left with the page cap reached,
\* with both queues empty, or with only low-priority entries left at or above
\* the threshold.
C19_CrawlTerminates ==
    /\ <>(~running)
    /\ [][running' => (C19_VisitsNew \/ C19_DropsVisited)]_vars
    /\ [](~running => C19_Ended)

\* a finished crawl whose last pass dropped an already visited entry, after at
\* least two pages had been visited
C19_Witness ==
    /\ ~running
    /\ last.kind = "already_visited"
    /\ Cardinality(visited_urls) >= 2
    /\ Cardinality(visited_urls) < max_pages

====
